---- MODULE Spec2Model ----
(***************************************************************************)
(* Request-context propagation (osbenchmark/context.py) and the transport  *)
(* of the Hyperspace client (osbenchmark/hyperspace_client.py).            *)
(*                                                                         *)
(* A concurrent unit is a thread (blocking client) or a cooperative task   *)
(* (suspending client).  The ContextVar `request_context` holds, per unit, *)
(* a reference to a dict (a RequestContext); the dicts live in `heap`.     *)
(***************************************************************************)
EXTENDS Integers, Sequences, FiniteSets, TLC

\* ------------------------------------------------------------------ bounds
\* One unit (Spec, SpecHooks): the clock values told apart, and the number of
\* operations of a run (scopes entered, perform_requests begun, hooks called
\* directly).
MaxTime == 3
MaxOps == 5
\* Two units (SpecConc): the same two limits.
ConcTime == 1
ConcOps == 4
\* The client methods (SpecClient): the operations of a run.
ApiOps == 2
\* Construction of the client (SpecAuth): the operations of a run.
AuthOps == 2
\* The bulk codec (SpecParse): the lines of a body.
MaxLines == 4
\* Operations of the two clients run side by side.
PairOps == 4

\* The two concurrent units.
Units == {1, 2}

\* A key that is not in the dict.
NONE == -1

\* contextvars.Token.MISSING: the variable had no value in this context.
MISSING == <<0, 0>>

\* A unit that has not been started has no context yet.
NoContext == <<0, 1>>

VARIABLES
    now,      \* the last reading of time.perf_counter()
    lim,      \* the limits of the run: [time, ops], ops counting down
    cell,     \* value of the ContextVar request_context, per context of a unit
    heap,     \* the RequestContext dicts, by identity
    mgrs,     \* per unit: the open RequestContextManagers, outermost first
    req,      \* per unit: the perform_request in progress or last finished
    closed,   \* per unit: the root RequestContextManager left last, as its
              \* caller still holds it
    client,   \* the client object: how its construction went, its headers
    wire,     \* the wire requests dispatched so far, in order
    call      \* per unit: the client method in progress or last finished

\* The variables of the client layer and of the caller.
ext == <<closed, client, wire, call>>

vars == <<now, lim, cell, heap, mgrs, req, closed, client, wire, call>>

\* Identity of the dict created by the scope that unit u opened at depth d.
CtxIds == Units \X (1..(IF MaxOps > ConcOps THEN MaxOps ELSE ConcOps))

\* ------------------------------------------------------------ the clock
\* time.perf_counter() is non-decreasing: a reading is the last one or later.
perf_counter(t) == {t, IF t < lim.time THEN t + 1 ELSE t}

\* --------------------------------------------------- RequestContext dicts
\* crs/cre/rs: client_request_start / client_request_end / request_start,
\* NONE when the key is absent; ends: request_end_list ("absent" and "empty"
\* read the same everywhere in the source).
\* History fields (not read by the program):
\*   writers = the units whose hooks or merges wrote the dict;
\*   first   = <<client start, request start>> readings of the first
\*             perform_request applied to the dict, lastce = the client end
\*             reading of the last one, res = their request end readings;
\*   k       = the number of nested scopes merged into the dict, kfirst =
\*             <<client_request_start, request_start>> finalized by the first
\*             of them, klast = <<client_request_end, request_end>> finalized
\*             by the last, kleaf = each of them held exactly one
\*             perform_request and no nested scope.
EmptyCtx ==
    [crs |-> NONE, cre |-> NONE, rs |-> NONE, ends |-> <<>>,
     writers |-> {}, first |-> <<>>, lastce |-> NONE, res |-> <<>>,
     k |-> 0, kfirst |-> <<>>, klast |-> <<>>, kleaf |-> TRUE]

\* The key under which a unit's value of the ContextVar is stored: every
\* thread and every task has its own context.
CellOfShared(u) == 1
CellOf(u) == u

\* request_context.get() on unit u (MISSING: get() raises LookupError).
Active(c, u) == c[CellOf(u)]

\* ------------------------------------------ RequestContextHolder.update_*
\* h: the heap, c: the dict request_context.get() returned, v: the value,
\* u: the calling unit (history only).
Wrote(h, c, u) == [h EXCEPT ![c].writers = @ \cup {u}]

update_request_start_overwrite(h, c, v, u) ==
    Wrote([h EXCEPT ![c].rs = v], c, u)

update_request_start(h, c, v, u) ==
    IF h[c].rs = NONE /\ h[c].crs # NONE
    THEN Wrote([h EXCEPT ![c].rs = v], c, u)
    ELSE h

update_request_end(h, c, v, u) ==
    Wrote([h EXCEPT ![c].ends = Append(@, v)], c, u)

update_client_request_start_overwrite(h, c, v, u) ==
    Wrote([h EXCEPT ![c].crs = v], c, u)

update_client_request_start(h, c, v, u) ==
    IF h[c].crs = NONE
    THEN Wrote([h EXCEPT ![c].crs = v], c, u)
    ELSE h

update_client_request_end(h, c, v, u) ==
    Wrote([h EXCEPT ![c].cre = v], c, u)

\* --------------------------------------- RequestContextManager properties
\* m: the manager's own dict (self.ctx); t: what time.perf_counter() returns
\* if the property has to read the clock.
request_start(m) == IF m.rs = NONE THEN 0 ELSE m.rs

client_request_start(m) == IF m.crs = NONE THEN 0 ELSE m.crs

client_request_end(m, t) == IF m.cre = NONE THEN t ELSE m.cre

RECURSIVE SeqMax(_)
SeqMax(s) ==
    IF Len(s) = 1 THEN s[1]
    ELSE LET r == SeqMax(Tail(s)) IN IF s[1] > r THEN s[1] ELSE r

request_end_inclusive(m, t) ==
    LET T == client_request_end(m, t)
        q == SelectSeq(m.ends, LAMBDA v : v <= T)
    IN  IF q = <<>> THEN 0 ELSE SeqMax(q)

request_end(m, t) ==
    LET T == client_request_end(m, t)
        q == SelectSeq(m.ends, LAMBDA v : v < T)
    IN  IF q = <<>> THEN 0 ELSE SeqMax(q)

\* The clock readings that can reach a property of m: ctx.get(key,
\* time.perf_counter()) reads the clock always and drops the reading when
\* client_request_end is in the dict.
ClockReads(m, t) == IF m.cre = NONE THEN perf_counter(t) ELSE {t}

\* ----------------------------- RequestContextHolder: the ContextVar itself
\* init_request_context: ctx = {}; token = request_context.set(ctx).  The
\* token remembers the value the variable had before (MISSING if none).
init_request_context_no_token(c, h, u, id) ==
    [heap  |-> (id :> EmptyCtx) @@ h,
     cell  |-> [c EXCEPT ![CellOf(u)] = id],
     ctx   |-> id,
     token |-> [old_value |-> MISSING]]

init_request_context(c, h, u, id) ==
    [heap  |-> (id :> EmptyCtx) @@ h,
     cell  |-> [c EXCEPT ![CellOf(u)] = id],
     ctx   |-> id,
     token |-> [old_value |-> Active(c, u)]]

\* restore_context: request_context.reset(token).
restore_context_skipped(c, u, token) == c
restore_context(c, u, token) == [c EXCEPT ![CellOf(u)] = token.old_value]

\* ------------------------------------------------------ the client object
\* state: "new" (not constructed), "ready", "failed" (__init__ raised error);
\* auth: headers["Authorization"], NoAuth when the key is absent.
NoAuth == <<>>

Bearer(token) == <<"Bearer", token>>

\* History fields: args = the credentials __init__ was given, login = the
\* answer to its login request (status 0 when it made none or got none).
NewClient ==
    [state |-> "new", auth |-> NoAuth, error |-> "none",
     args |-> <<"None", "None", "None">>, login |-> [status |-> 0, body |-> "empty"]]

ReadyClient == [NewClient EXCEPT !.state = "ready"]

\* A dict without keys.
EmptyDict == [k \in {} |-> 0]

\* A client method called on a unit.  op: the method; index, params: its
\* arguments; result: what it returned or raised; sent: the wire requests it
\* dispatched; status: the status of the answer to its wire call, 0 while
\* there is none; docs: the documents bulk parsed; request: the wire request
\* it dispatched; resp: the answer it got; caller: the params object of the
\* caller as the method left it.
NoCall ==
    [op |-> "none", index |-> "", params |-> <<>>, result |-> "none",
     sent |-> 0, status |-> 0, docs |-> <<>>, request |-> <<>>,
     resp |-> [ctype |-> <<>>, content |-> ""], caller |-> <<>>]

\* Index names are sequences of characters; '*' is the wildcard.
HasWildcard(index) == \E i \in DOMAIN index : index[i] = "*"

\* No scope object is held.
NoClosed == <<>>

\* ------------------------------------------------------ perform_request
\* pc: "idle", "pending" (the wire call is dispatched and not yet answered),
\* "reading" (suspending variant: awaiting resp.read()); result: how the
\* last perform_request ended, until the caller goes on; exc: the exception
\* propagating on the unit; trace: the hook and dispatch events of that
\* perform_request, each with the dict it wrote; t0: the clock readings of
\* the start hooks of the call in flight.
\* History fields: overlap = another unit took a step while the call was in
\* flight; cancelled = the unit's last perform_request was cancelled.
NoRequest ==
    [pc |-> "idle", variant |-> "none", result |-> "none", exc |-> "none",
     trace |-> <<>>, t0 |-> <<>>, overlap |-> FALSE, cancelled |-> FALSE]

Errors == {"HTTPError", "ConnectionError", "DecodeError", "CancelledError",
           "LookupError"}

Event(e, c) == [ev |-> e, ctx |-> c]

Idle(u) == req[u].pc = "idle" /\ req[u].exc = "none"

\* r with the step of unit u noted on the calls of the other units in flight.
Mark(r, u) ==
    [w \in Units |->
        IF w # u /\ r[w].pc # "idle" THEN [r[w] EXCEPT !.overlap = TRUE] ELSE r[w]]

\* The caller goes on after a perform_request: its result is consumed.  An
\* exception that is still propagating stays.
Consumed(r, u) ==
    IF r[u].exc # "none" THEN r
    ELSE [r EXCEPT ![u] = [NoRequest EXCEPT !.cancelled = r[u].cancelled]]

TypeOK ==
    /\ now \in 1..lim.time
    /\ cell \in [Units -> CtxIds \cup {MISSING, NoContext}]
    /\ DOMAIN heap \subseteq CtxIds
    /\ \A u \in Units : req[u].pc \in {"idle", "pending", "reading"}
    /\ lim.ops >= 0

\* ------------------------------------------------ RequestContextManager
\* async with ctx_holder.new_request_context(): __aenter__.
aenter(u) ==
    /\ Idle(u)
    /\ lim.ops > 0
    /\ lim' = [lim EXCEPT !.ops = @ - 1]
    /\ LET r == init_request_context(cell, heap, u, <<u, Len(mgrs[u]) + 1>>)
       IN  /\ heap' = r.heap
           /\ cell' = r.cell
           /\ mgrs' = [mgrs EXCEPT ![u] = Append(@, [ctx |-> r.ctx, token |-> r.token])]
    /\ req' = Mark(Consumed(req, u), u)
    /\ UNCHANGED now

\* The finalized values of a scope, as __aexit__ reads them (lines 63-66);
\* n, k = the number of perform_requests applied to the scope itself and of
\* nested scopes merged into it.
Finalized(m, t1, t2) ==
    [crs |-> client_request_start(m),
     cre |-> client_request_end(m, t1),
     rs  |-> request_start(m),
     re  |-> request_end(m, t2),
     n   |-> Len(m.res),
     k   |-> m.k]

\* The four updates of the parent dict p, in the order of lines 70-73.
Merge_on_success(h, p, f, u) ==
    IF req[u].exc # "none" THEN h
    ELSE LET h1 == update_request_start(h, p, f.rs, u)
             h2 == update_request_end(h1, p, f.re, u)
             h3 == update_client_request_start(h2, p, f.crs, u)
             h4 == update_client_request_end(h3, p, f.cre, u)
         IN  [h4 EXCEPT ![p].k = @ + 1,
                        ![p].kfirst = IF h[p].k = 0 THEN <<f.crs, f.rs>> ELSE @,
                        ![p].klast = <<f.cre, f.re>>,
                        ![p].kleaf = @ /\ f.n = 1 /\ f.k = 0]

Merge(h, p, f, u) ==
    LET h1 == update_request_start(h, p, f.rs, u)
        h2 == update_request_end(h1, p, f.re, u)
        h3 == update_client_request_start(h2, p, f.crs, u)
        h4 == update_client_request_end(h3, p, f.cre, u)
    IN  [h4 EXCEPT ![p].k = @ + 1,
                   ![p].kfirst = IF h[p].k = 0 THEN <<f.crs, f.rs>> ELSE @,
                   ![p].klast = <<f.cre, f.re>>,
                   ![p].kleaf = @ /\ f.n = 1 /\ f.k = 0]

\* The heap without dict c, unless c is dict p.
Drop(h, c, p) == IF c = p THEN h ELSE [i \in DOMAIN h \ {c} |-> h[i]]

\* __aexit__, on normal exit of the block and on an exception leaving it
\* (it returns False: the exception keeps propagating).  The dict of a nested
\* scope is dropped once merged.
aexit(u) ==
    /\ mgrs[u] # <<>>
    /\ req[u].pc = "idle"
    /\ LET self == mgrs[u][Len(mgrs[u])]
           m    == heap[self.ctx]
       IN  \E t1 \in ClockReads(m, now) : \E t2 \in ClockReads(m, t1) :
             LET f  == Finalized(m, t1, t2)
                 c1 == restore_context(cell, u, self.token)
                 p  == Active(c1, u)
             IN  /\ cell' = c1
                 /\ IF self.token.old_value # MISSING
                    THEN /\ p # MISSING
                         /\ now' = t2
                         /\ heap' = Drop(Merge(heap, p, f, u), self.ctx, p)
                    ELSE /\ heap' = heap
                         /\ now' = now
    /\ mgrs' = [mgrs EXCEPT ![u] = SubSeq(@, 1, Len(@) - 1)]
    /\ req' = Mark(Consumed(req, u), u)
    /\ UNCHANGED lim

\* ------------------------------------- the scope object after its exit
\* `async with holder.new_request_context() as ctx:` ends and the caller
\* keeps ctx.  m: the dict the object refers to (self.ctx, which __aexit__
\* does not clear); before: the four properties as read at the end of the
\* block; read: as read last after the exit; frame: the exit wrote no dict.
Leave(u) ==
    /\ aexit(u)
    /\ closed' =
         IF Len(mgrs[u]) = 1
         THEN LET m == heap[mgrs[u][1].ctx]
              IN  [closed EXCEPT ![u] =
                      [m |-> m, before |-> Finalized(m, now, now),
                       read |-> <<>>, frame |-> (heap' = heap)]]
         ELSE closed
    /\ UNCHANGED <<client, wire, call>>

\* The caller reads client_request_start, client_request_end, request_start
\* and request_end of the object it kept.
read_properties(u) ==
    /\ closed[u] # NoClosed
    /\ Idle(u)
    /\ LET m == closed[u].m
       IN  \E t1 \in ClockReads(m, now) : \E t2 \in ClockReads(m, t1) :
             /\ closed' = [closed EXCEPT ![u].read = Finalized(m, t1, t2)]
             /\ now' = t2
    /\ UNCHANGED <<lim, cell, heap, mgrs, req, client, wire, call>>

\* The caller enters a scope; it has dropped the object of the last one.
Enter(u) ==
    /\ aenter(u)
    /\ closed' = [closed EXCEPT ![u] = NoClosed]
    /\ UNCHANGED <<client, wire, call>>

\* ------------------------------- RequestContextHolder.on_* called directly
\* request_context.get() raises LookupError when the variable has no value.
RaiseLookupError(u) ==
    /\ req' = [req EXCEPT ![u].exc = "LookupError"]
    /\ UNCHANGED <<now, lim, cell, heap, mgrs>>

on_client_request_start(u) ==
    /\ Idle(u)
    /\ LET c == Active(cell, u)
       IN  IF c = MISSING THEN RaiseLookupError(u)
           ELSE \E t \in perf_counter(now) :
                  /\ lim.ops > 0
                  /\ lim' = [lim EXCEPT !.ops = @ - 1]
                  /\ heap' = update_client_request_start(heap, c, t, u)
                  /\ now' = t
                  /\ UNCHANGED <<cell, mgrs, req>>

on_client_request_end(u) ==
    /\ Idle(u)
    /\ LET c == Active(cell, u)
       IN  IF c = MISSING THEN RaiseLookupError(u)
           ELSE \E t \in perf_counter(now) :
                  /\ lim.ops > 0
                  /\ lim' = [lim EXCEPT !.ops = @ - 1]
                  /\ heap' = update_client_request_end(heap, c, t, u)
                  /\ now' = t
                  /\ UNCHANGED <<cell, mgrs, req>>

on_request_start(u) ==
    /\ Idle(u)
    /\ LET c == Active(cell, u)
       IN  IF c = MISSING THEN RaiseLookupError(u)
           ELSE \E t \in perf_counter(now) :
                  /\ lim.ops > 0
                  /\ lim' = [lim EXCEPT !.ops = @ - 1]
                  /\ heap' = update_request_start(heap, c, t, u)
                  /\ now' = t
                  /\ UNCHANGED <<cell, mgrs, req>>

on_request_end(u) ==
    /\ Idle(u)
    /\ LET c == Active(cell, u)
       IN  IF c = MISSING THEN RaiseLookupError(u)
           ELSE \E t \in perf_counter(now) :
                  /\ lim.ops > 0
                  /\ lim' = [lim EXCEPT !.ops = @ - 1]
                  /\ heap' = update_request_end(heap, c, t, u)
                  /\ now' = t
                  /\ UNCHANGED <<cell, mgrs, req>>

\* --------------------------------- _SyncTransport / _AsyncTransport
\* The start hooks and the dispatch of the wire call (lines 378-385 and
\* 416-426).  A hook that raises does so before the try block: nothing is
\* dispatched and the finally clause does not run.
Begin(u, v) ==
    /\ Idle(u)
    /\ LET c == Active(cell, u)
       IN  IF c = MISSING
           THEN /\ req' = [req EXCEPT ![u] =
                      [NoRequest EXCEPT !.variant = v, !.result = "LookupError",
                                        !.exc = "LookupError"]]
                /\ UNCHANGED <<now, lim, cell, heap, mgrs>>
           ELSE /\ lim.ops > 0
                /\ lim' = [lim EXCEPT !.ops = @ - 1]
                /\ \E t1 \in perf_counter(now) : \E t2 \in perf_counter(t1) :
                     /\ heap' = update_request_start(
                                   update_client_request_start(heap, c, t1, u),
                                   Active(cell, u), t2, u)
                     /\ now' = t2
                     /\ req' = Mark([req EXCEPT ![u] =
                           [NoRequest EXCEPT !.pc = "pending", !.variant = v,
                              !.t0 = <<t1, t2>>,
                              !.trace = <<Event("on_client_request_start", c),
                                          Event("on_request_start", Active(cell, u)),
                                          Event("wire", MISSING)>>]], u)
                     /\ UNCHANGED <<cell, mgrs>>

\* search wraps perform_request in try/except: on the protocol error of a
\* non-2xx answer (requests.HTTPError, aiohttp.ClientResponseError) it returns
\* the empty-hit result if the index name contains '*', and re-raises if not.
Catches_any_failure(k, outcome) ==
    k.op = "search" /\ outcome \in {"HTTPError", "ConnectionError"}
                    /\ HasWildcard(k.index)

Catches(k, outcome) ==
    k.op = "search" /\ outcome = "HTTPError" /\ HasWildcard(k.index)

\* The call ends with `outcome`; hooks = the end hooks run (on_request_end,
\* then on_client_request_end) before the caller gets the result or the
\* exception.
Complete(u, outcome, hooks) ==
    LET c    == Active(cell, u)
        done == [req[u] EXCEPT !.pc = "idle", !.t0 = <<>>,
                               !.result = outcome,
                               !.cancelled = (outcome = "CancelledError"),
                               !.exc = IF outcome \in Errors /\ ~Catches(call[u], outcome)
                                       THEN outcome ELSE "none"]
    IN  IF ~hooks
        THEN /\ req' = Mark([req EXCEPT ![u] = done], u)
             /\ UNCHANGED <<now, lim, cell, heap, mgrs>>
        ELSE IF c = MISSING
        THEN /\ req' = Mark([req EXCEPT ![u] =
                         [done EXCEPT !.result = "LookupError", !.exc = "LookupError"]], u)
             /\ UNCHANGED <<now, lim, cell, heap, mgrs>>
        ELSE \E t1 \in perf_counter(now) : \E t2 \in perf_counter(t1) :
               LET h1 == update_request_end(heap, c, t1, u)
                   h2 == update_client_request_end(h1, Active(cell, u), t2, u)
               IN  /\ heap' = [h2 EXCEPT
                                  ![c].first = IF @ = <<>> THEN req[u].t0 ELSE @,
                                  ![c].lastce = t2,
                                  ![c].res = Append(@, t1)]
                   /\ now' = t2
                   /\ req' = Mark([req EXCEPT ![u] =
                         [done EXCEPT !.trace = @ \o
                              <<Event("on_request_end", c),
                                Event("on_client_request_end", Active(cell, u))>>]], u)
                   /\ UNCHANGED <<lim, cell, mgrs>>

\* The finally clause (lines 392-394 and 436-438) runs on every way out of
\* the try block.
Finally_after_try(u, outcome) == Complete(u, outcome, outcome \notin Errors)
Finally(u, outcome) == Complete(u, outcome, TRUE)

SyncOutcomes == {"json", "empty", "HTTPError", "ConnectionError", "DecodeError"}

ReadOutcomes == {"json", "empty", "DecodeError"}

SyncTransport_perform_request(u) == Begin(u, "sync")

\* requests.request returns or raises, raise_for_status, resp.json().
SyncTransport_complete(u, outcome) ==
    /\ req[u].pc = "pending"
    /\ req[u].variant = "sync"
    /\ Finally(u, outcome)

AsyncTransport_perform_request(u) == Begin(u, "async")

\* session.request(...) answers: raise_for_status raises on a non-2xx status,
\* otherwise the coroutine awaits resp.read().
AsyncTransport_response(u, ok) ==
    /\ req[u].pc = "pending"
    /\ req[u].variant = "async"
    /\ IF ok
       THEN /\ req' = Mark([req EXCEPT ![u].pc = "reading"], u)
            /\ UNCHANGED <<now, lim, cell, heap, mgrs>>
       ELSE Finally(u, "HTTPError")

\* resp.read() returns: the body is decoded, or the result is {}.
AsyncTransport_read(u, outcome) ==
    /\ req[u].pc = "reading"
    /\ Finally(u, outcome)

\* Either await raises a connection-level error.
AsyncTransport_connection_error(u) ==
    /\ req[u].pc \in {"pending", "reading"}
    /\ req[u].variant = "async"
    /\ Finally(u, "ConnectionError")

\* The caller cancels the task while it is suspended at either await.
AsyncTransport_cancel(u) ==
    /\ req[u].pc \in {"pending", "reading"}
    /\ req[u].variant = "async"
    /\ Finally(u, "CancelledError")

\* The caller handles the exception that left perform_request or a hook; a
\* cancelled task unwinds all its scopes first.
handled(u) ==
    /\ req[u].exc # "none"
    /\ req[u].exc = "CancelledError" => mgrs[u] = <<>>
    /\ req' = Consumed([req EXCEPT ![u].exc = "none"], u)
    /\ UNCHANGED <<now, lim, cell, heap, mgrs>>

\* ------------------------------------------------------- HTTP answers
\* The statuses told apart.
Statuses == {101, 200, 304, 404, 503}

\* resp.headers.get("Content-Type", ""): the value of the header as the
\* pieces of its text, <<>> when the answer has no such header.
ContentTypes ==
    {<<"application/json">>, <<"application/json", "; charset=utf-8">>,
     <<"text/plain">>, <<>>}

\* str.startswith(prefix)
startswith(s, prefix) ==
    Len(s) >= Len(prefix) /\ SubSeq(s, 1, Len(prefix)) = prefix

\* JSON values: strings (sequences of characters), lists, dicts (functions
\* from keys, themselves sequences of characters, to values) and null.
Str(s) == [type |-> "str", v |-> s]

List(items) == [type |-> "list", v |-> items]

Map(d) == [type |-> "dict", v |-> d]

Null == [type |-> "null", v |-> <<>>]

Key(s) == <<s>>

\* The contents of answers told apart, by name: "" (no bytes), a search
\* result, bytes that are no JSON text, and the collection listings: a bare
\* sequence and a map enveloping it, of entries with a name field, without
\* one, and of bare names; a map keyed by collection name.
Contents ==
    {"", "doc", "bad", "[]", "{}", "list_1", "list_other_1", "list_star",
     "list_no_name", "list_names", "env_1", "env_other", "env_empty",
     "map_1"}

Entry(name) == Map(Key("name") :> Str(name))

\* The contents that are JSON texts: json.loads(raw.decode("utf-8")) and
\* resp.json() raise a decoding error for the others.
IsJsonText(content) == content \notin {"", "bad"}

\* The value of a content that is a JSON text.
json_value(content) ==
    CASE content = "doc" -> Map(Key("hits") :> List(<<>>))
      [] content = "[]" -> List(<<>>)
      [] content = "{}" -> Map(EmptyDict)
      [] content = "list_1" -> List(<<Entry(<<"l", "-", "1">>)>>)
      [] content = "list_other_1" ->
            List(<<Entry(<<"o">>), Entry(<<"l", "-", "1">>)>>)
      [] content = "list_star" -> List(<<Entry(<<"l", "-", "*">>)>>)
      [] content = "list_no_name" ->
            List(<<Map(Key("id") :> Str(<<"l", "-", "1">>))>>)
      [] content = "list_names" -> List(<<Str(<<"l", "-", "1">>)>>)
      [] content = "env_1" ->
            Map(Key("collections") :> List(<<Entry(<<"l", "-", "1">>)>>))
      [] content = "env_other" ->
            Map(Key("collections") :> List(<<Entry(<<"o">>)>>))
      [] content = "env_empty" -> Map(Key("collections") :> List(<<>>))
      [] content = "map_1" -> Map(<<"l", "-", "1">> :> Map(EmptyDict))
      [] OTHER -> Null

\* An answer: its Content-Type and its content.
Response(ctype, content) == [ctype |-> ctype, content |-> content]

NoResponse == Response(<<>>, "")

Responses == {Response(t, c) : t \in ContentTypes, c \in Contents}

\* The answers a search or a bulk gets: declared as JSON, with a result,
\* without content, malformed.
Bodies ==
    {Response(<<"application/json">>, c) : c \in {"doc", "", "bad"}}

\* resp.raise_for_status(): requests raises HTTPError for 400 <= status <
\* 600, aiohttp raises ClientResponseError for status >= 400.
raise_for_status(v, status) ==
    IF v = "sync" THEN status >= 400 /\ status < 600 ELSE status >= 400

\* Lines 389-391 and 431-434: how perform_request ends for an answer that
\* raise_for_status let through: "json" (the decoded content is returned),
\* "empty" ({} is returned, nothing is decoded), DecodeError.
Decode_any_content_type(v, resp) ==
    IF resp.content = "" THEN "empty"
    ELSE IF IsJsonText(resp.content) THEN "json"
    ELSE "DecodeError"

Decode_async_always_loads(v, resp) ==
    LET declared == startswith(resp.ctype, <<"application/json">>)
        loaded   == IF IsJsonText(resp.content) THEN "json" ELSE "DecodeError"
    IN  IF v = "sync"
        THEN IF resp.content # "" /\ declared THEN loaded ELSE "empty"
        ELSE IF declared THEN loaded ELSE "empty"

Decode(v, resp) ==
    LET declared == startswith(resp.ctype, <<"application/json">>)
        loaded   == IF IsJsonText(resp.content) THEN "json" ELSE "DecodeError"
    IN  IF v = "sync"
        THEN IF resp.content # "" /\ declared THEN loaded ELSE "empty"
        ELSE IF declared
             THEN IF resp.content # "" THEN loaded ELSE "empty"
             ELSE "empty"

\* The value perform_request returns when it ends with `outcome`.
ReturnValue(resp, outcome) ==
    IF outcome = "json" THEN json_value(resp.content) ELSE Map(EmptyDict)

\* Lines 244-255 and 312-323: what indices.exists(index) makes of the value
\* perform_request returned.
exists_result(resp, index) ==
    LET collections == IF DOMAIN resp.v = {} THEN List(<<>>) ELSE resp
        listing == IF collections.type = "dict"
                      /\ Key("collections") \in DOMAIN collections.v
                   THEN collections.v[Key("collections")]
                   ELSE collections
        name(c) == IF c.type = "dict"
                   THEN IF Key("name") \in DOMAIN c.v THEN c.v[Key("name")] ELSE Null
                   ELSE c
    IN  IF listing.type = "dict"
        THEN \E key \in DOMAIN listing.v : key = index
        ELSE \E i \in DOMAIN listing.v :
                name(listing.v[i]).type = "str" /\ name(listing.v[i]).v = index

\* bool as text.
Bool(b) == IF b THEN "True" ELSE "False"

\* What the client method returns or raises when its perform_request ends
\* with `outcome`.
Returned(k, outcome) ==
    IF Catches(k, outcome) THEN "empty_hits"
    ELSE IF k.op = "indices.exists" /\ outcome \notin Errors
    THEN Bool(exists_result(ReturnValue(k.resp, outcome), k.index))
    ELSE outcome

\* self.headers: the Authorization header, if the client has one.
Headers(auth) ==
    IF auth = NoAuth THEN EmptyDict ELSE ("Authorization" :> auth)

\* A request on the wire.
WireRequest(method, path, params, body, headers) ==
    [method |-> method, path |-> path, params |-> params, body |-> body,
     headers |-> headers]

\* perform_request called by client method k of unit u: the start hooks and
\* the dispatch of wr, or LookupError from the first hook.
Request(u, v, k, wr) ==
    /\ client.state = "ready"
    /\ Begin(u, v)
    /\ IF Active(cell, u) # MISSING
       THEN /\ wire' = Append(wire, wr)
            /\ call' = [call EXCEPT ![u] = [k EXCEPT !.sent = 1, !.request = wr]]
       ELSE /\ wire' = wire
            /\ call' = [call EXCEPT ![u] = [k EXCEPT !.result = "LookupError"]]
    /\ UNCHANGED <<closed, client>>

\* The blocking wire call is answered: raise_for_status, then the decoding.
SyncTransport_answer(u, status, body) ==
    LET outcome == IF raise_for_status("sync", status) THEN "HTTPError"
                   ELSE Decode("sync", body)
        k       == [call[u] EXCEPT !.status = status, !.resp = body]
    IN  /\ SyncTransport_complete(u, outcome)
        /\ call' = [call EXCEPT ![u] = [k EXCEPT !.result = Returned(k, outcome)]]
        /\ UNCHANGED <<closed, client, wire>>

\* requests.request raises a connection-level error.
SyncTransport_connection_error(u) ==
    /\ SyncTransport_complete(u, "ConnectionError")
    /\ call' = [call EXCEPT ![u].result = Returned(call[u], "ConnectionError")]
    /\ UNCHANGED <<closed, client, wire>>

\* The suspending wire call is answered: raise_for_status.
AsyncTransport_answer(u, status) ==
    /\ AsyncTransport_response(u, ~raise_for_status("async", status))
    /\ call' = [call EXCEPT ![u].status = status,
                            ![u].result = IF raise_for_status("async", status)
                                          THEN Returned(call[u], "HTTPError")
                                          ELSE "none"]
    /\ UNCHANGED <<closed, client, wire>>

\* resp.read() returned the content of `body`.
AsyncTransport_decode(u, body) ==
    LET outcome == Decode("async", body)
        k       == [call[u] EXCEPT !.resp = body]
    IN  /\ AsyncTransport_read(u, outcome)
        /\ call' = [call EXCEPT ![u] = [k EXCEPT !.result = Returned(k, outcome)]]
        /\ UNCHANGED <<closed, client, wire>>

AsyncTransport_fails(u) ==
    /\ AsyncTransport_connection_error(u)
    /\ call' = [call EXCEPT ![u].result = Returned(call[u], "ConnectionError")]
    /\ UNCHANGED <<closed, client, wire>>

AsyncTransport_cancelled(u) ==
    /\ AsyncTransport_cancel(u)
    /\ call' = [call EXCEPT ![u].result = "CancelledError"]
    /\ UNCHANGED <<closed, client, wire>>

\* ------------------------------------------------- _BaseClient.__init__
\* An argument that is None, and the values Python takes as true.
None == "None"

Truthy(x) == x # None /\ x # ""

Tokens == {None, "", "tok"}

Users == {None, "user"}

Passwords == {None, "secret"}

\* The JSON object of a login answer, by the body of the answer.
LoginBodies ==
    {"token", "access_token", "both", "empty_token", "no_token", "empty", "bad"}

LoginData(body) ==
    CASE body = "token" -> [token |-> "T1", access_token |-> None]
      [] body = "access_token" -> [token |-> None, access_token |-> "T2"]
      [] body = "both" -> [token |-> "T1", access_token |-> "T2"]
      [] body = "empty_token" -> [token |-> "", access_token |-> "T2"]
      [] body = "no_token" -> [token |-> None, access_token |-> None]
      [] body = "empty" -> [token |-> None, access_token |-> None]

\* The answers to the login request; status 0: no answer, requests.post
\* raised a connection-level error.
LoginAnswers ==
    [status : Statuses, body : LoginBodies] \cup {[status |-> 0, body |-> "empty"]}

Failed(e) == [NewClient EXCEPT !.state = "failed", !.error = e]

\* _login from line 66 on: the client the answer leaves.
login_result_lenient(ans) ==
    IF ans.status = 0 THEN Failed("ConnectionError")
    ELSE IF raise_for_status("sync", ans.status) THEN Failed("HTTPError")
    ELSE IF ans.body = "bad" THEN Failed("DecodeError")
    ELSE LET data  == LoginData(ans.body)
             token == IF Truthy(data.token) THEN data.token ELSE data.access_token
         IN  IF Truthy(token)
             THEN [ReadyClient EXCEPT !.auth = Bearer(token)]
             ELSE ReadyClient

login_result(ans) ==
    IF ans.status = 0 THEN Failed("ConnectionError")
    ELSE IF raise_for_status("sync", ans.status) THEN Failed("HTTPError")
    ELSE IF ans.body = "bad" THEN Failed("DecodeError")
    ELSE LET data  == LoginData(ans.body)
             token == IF Truthy(data.token) THEN data.token ELSE data.access_token
         IN  IF Truthy(token)
             THEN [ReadyClient EXCEPT !.auth = Bearer(token)]
             ELSE Failed("RuntimeError")

\* Lines 31-36; the login request is the one of lines 60-65.  The client
\* keeps, as history, the arguments and the answer to the login, if any.
construct(token, login_user, login_password, ans) ==
    /\ client.state = "new"
    /\ LET args == <<token, login_user, login_password>>
       IN  IF Truthy(token)
           THEN /\ client' = [ReadyClient EXCEPT !.auth = Bearer(token), !.args = args]
                /\ wire' = wire
           ELSE IF login_user # None \/ login_password # None
           THEN IF login_user = None \/ login_password = None
                THEN /\ client' = [Failed("ValueError") EXCEPT !.args = args]
                     /\ wire' = wire
                ELSE /\ wire' = Append(wire, WireRequest("POST", <<"login">>, EmptyDict,
                                          <<login_user, login_password>>,
                                          ("Content-Type" :> "application/json")
                                             @@ ("Accept" :> "application/json")))
                     /\ client' = [login_result(ans) EXCEPT !.args = args, !.login = ans]
           ELSE /\ client' = [ReadyClient EXCEPT !.args = args]
                /\ wire' = wire
    /\ UNCHANGED <<now, lim, cell, heap, mgrs, req, closed, call>>

\* ------------------------------------------------------------- search
\* The caller's params: given = FALSE for None, else the dict.
NoParams == [given |-> FALSE, dict |-> EmptyDict]

Dict(d) == [given |-> TRUE, dict |-> d]

\* Lines 489-492 and 608-611: the params of the outgoing request.
search_params_overwrite(p) ==
    IF ~p.given THEN [size |-> 10] ELSE ("size" :> 10) @@ p.dict

search_params(p) ==
    IF ~p.given THEN [size |-> 10]
    ELSE IF "size" \notin DOMAIN p.dict THEN ("size" :> 10) @@ p.dict
    ELSE p.dict

\* The caller's params after lines 489-492 and 608-611: `params` is rebound
\* to a new dict if the caller gave None, and is the caller's own dict if it
\* gave one, so the item assignment of lines 492 and 611 writes into that.
params_after(p) ==
    IF ~p.given THEN p
    ELSE IF "size" \notin DOMAIN p.dict THEN Dict(("size" :> 10) @@ p.dict)
    ELSE p

\* search(index, body, params): one perform_request, POST {index}/dsl_search.
search(u, v, index, p) ==
    Request(u, v,
            [NoCall EXCEPT !.op = "search", !.index = index, !.params = p,
                           !.caller = params_after(p)],
            WireRequest("POST", <<index, "dsl_search">>, search_params(p), "query",
                        Headers(client.auth)))

\* --------------------------------------------------- _parse_bulk_body
\* Text is a sequence of characters.  NL: line feed; LS: U+2028 LINE
\* SEPARATOR, which JSON allows unescaped inside a string and at which
\* str.splitlines() splits as it does at a line feed; SP: a space.  The
\* other characters stand for the pieces of a JSON text.
NL == "NL"

LS == "LS"

SP == "SP"

\* The documents told apart: without and with the key _id, with a key named
\* index, with U+2028 in a string value.
Documents == {"plain", "with_id", "key_index", "sep"}

\* The action-metadata objects {"index": {}} and {"create": {}}.
ActionLines == {"meta_index", "meta_create"}

JsonValues == Documents \cup ActionLines

\* json.dumps(x): the text of x, on one line.
dumps(x) ==
    CASE x = "plain" -> <<"{", "f", "}">>
      [] x = "with_id" -> <<"{", "_id", "f", "}">>
      [] x = "key_index" -> <<"{", "\"index\"", "f", "}">>
      [] x = "sep" -> <<"{", "f", LS, "f", "}">>
      [] x = "meta_index" -> <<"{", "\"index\"", "{", "}", "}">>
      [] x = "meta_create" -> <<"{", "\"create\"", "{", "}", "}">>

\* json.loads(line): the value whose text the line is; DecodeError if none.
loads(line) ==
    IF \E x \in JsonValues : dumps(x) = line
    THEN CHOOSE x \in JsonValues : dumps(x) = line
    ELSE "DecodeError"

\* doc.get("_id", "")
get_id(doc) == IF doc = "with_id" THEN "7" ELSE ""

\* The characters of the texts, and the UTF-8 bytes of each (in hex).
Chars == {"{", "}", "f", "_id", "\"index\"", "\"create\"", NL, LS, SP}

Utf8(ch) ==
    CASE ch = "{" -> "7b"
      [] ch = "}" -> "7d"
      [] ch = "f" -> "2266223a31"
      [] ch = "_id" -> "225f6964223a2237222c"
      [] ch = "\"index\"" -> "22696e64657822"
      [] ch = "\"create\"" -> "2263726561746522"
      [] ch = NL -> "0a"
      [] ch = LS -> "e280a8"
      [] ch = SP -> "20"

\* str.encode("utf-8") / bytes.decode("utf-8").
encode(text) == [i \in DOMAIN text |-> Utf8(text[i])]

decode(bytes) == [i \in DOMAIN bytes |-> CHOOSE ch \in Chars : Utf8(ch) = bytes[i]]

\* str.splitlines()
RECURSIVE splitlines(_)
splitlines(t) ==
    LET breaks == {i \in DOMAIN t : t[i] \in {NL, LS}}
    IN  IF t = <<>> THEN <<>>
        ELSE IF breaks = {} THEN <<t>>
        ELSE LET i == CHOOSE b \in breaks : \A j \in breaks : b <= j
             IN  <<SubSeq(t, 1, i - 1)>> \o splitlines(SubSeq(t, i + 1, Len(t)))

\* str.strip()
RECURSIVE strip(_)
strip(l) ==
    IF l = <<>> THEN l
    ELSE IF l[1] = SP THEN strip(Tail(l))
    ELSE IF l[Len(l)] = SP THEN strip(SubSeq(l, 1, Len(l) - 1))
    ELSE l

\* Line 548: [l.strip() for l in text.splitlines() if l.strip()]
Lines(text) ==
    LET ls == splitlines(text)
    IN  SelectSeq([i \in DOMAIN ls |-> strip(ls[i])], LAMBDA l : l # <<>>)

\* Line 556: line.startswith("{") and ("\"index\"" in line or "\"create\"" in line)
IsActionLine(line) ==
    /\ line[1] = "{"
    /\ \E i \in DOMAIN line : line[i] \in {"\"index\"", "\"create\""}

\* Lines 549-560: the loop over the lines from line i on, with the documents
\* collected so far and the flag skip_next.
RECURSIVE ScanLines_pattern_first(_, _, _, _)
ScanLines_pattern_first(lines, i, docs, skip_next) ==
    IF i > Len(lines) THEN [error |-> "none", docs |-> docs]
    ELSE IF IsActionLine(lines[i])
    THEN ScanLines_pattern_first(lines, i + 1, docs, TRUE)
    ELSE IF loads(lines[i]) = "DecodeError"
    THEN [error |-> "DecodeError", docs |-> <<>>]
    ELSE ScanLines_pattern_first(lines, i + 1, Append(docs, loads(lines[i])), FALSE)

RECURSIVE ScanLines(_, _, _, _)
ScanLines(lines, i, docs, skip_next) ==
    IF i > Len(lines) THEN [error |-> "none", docs |-> docs]
    ELSE IF ~skip_next /\ IsActionLine(lines[i])
    THEN ScanLines(lines, i + 1, docs, TRUE)
    ELSE IF loads(lines[i]) = "DecodeError"
    THEN [error |-> "DecodeError", docs |-> <<>>]
    ELSE ScanLines(lines, i + 1, Append(docs, loads(lines[i])), FALSE)

\* A body: kind "list" (data: the documents), "str" and "handle" (data: the
\* text, or what read() returns), "bytes" and "binary_handle" (data: the
\* bytes), "path" (data: the bytes in the file of that name).
\* Lines 533-546: the text of a body that is not a list.
TextOf(body) ==
    IF body.kind \in {"bytes", "binary_handle", "path"} THEN decode(body.data)
    ELSE body.data

parse_bulk_body(body) ==
    IF body.kind = "list" THEN [error |-> "none", docs |-> body.data]
    ELSE ScanLines(Lines(TextOf(body)), 1, <<>>, FALSE)

\* The text of a sequence of JSON values in the line-oriented bulk format,
\* one value per line; padded: indented, with a blank line after each.
RECURSIVE BulkText(_, _)
BulkText(values, padded) ==
    IF values = <<>> THEN <<>>
    ELSE (IF padded THEN <<SP>> \o dumps(values[1]) \o <<SP, NL, NL>>
          ELSE dumps(values[1]) \o <<NL>>)
         \o BulkText(Tail(values), padded)

\* The body of representation `kind` for the lines `values`; src: the values
\* it was made from (not read by the program).
Body(kind, values, padded) ==
    [kind |-> kind,
     data |-> IF kind = "list" THEN values
              ELSE IF kind \in {"bytes", "binary_handle", "path"}
              THEN encode(BulkText(values, padded))
              ELSE BulkText(values, padded),
     src  |-> values]

TextKinds == {"str", "bytes", "path", "handle", "binary_handle"}

\* msgpack.packb(x)
packb(x) == <<"msgpack", x>>

\* Lines 466-470: the payload for the parsed documents.
batch(docs) ==
    packb([i \in DOMAIN docs |->
             [_id |-> get_id(docs[i]), doc_data |-> packb(docs[i])]])

\* The exception of a client method that made no wire call propagates.
Raise(u, e) ==
    req' = [req EXCEPT ![u] = [NoRequest EXCEPT !.exc = e, !.cancelled = req[u].cancelled]]

\* bulk(index, body): parse, wrap, one perform_request POST {index}/batch.
bulk(u, v, index, body) ==
    LET r == parse_bulk_body(body)
        k == [NoCall EXCEPT !.op = "bulk", !.index = index, !.params = body]
    IN  IF r.error # "none"
        THEN /\ client.state = "ready"
             /\ Idle(u)
             /\ Raise(u, r.error)
             /\ call' = [call EXCEPT ![u] = [k EXCEPT !.result = r.error]]
             /\ UNCHANGED <<now, lim, cell, heap, mgrs, closed, client, wire>>
        ELSE Request(u, v, [k EXCEPT !.docs = r.docs],
                     WireRequest("POST", <<index, "batch">>, EmptyDict, batch(r.docs),
                                 ("Content-Type" :> "application/msgpack")
                                    @@ Headers(client.auth)))

\* ------------------------------------- documents and collections
\* index(index, document): one perform_request, PUT {index}/document/add
\* with the packed document.
client_index(u, v, index, document) ==
    Request(u, v,
            [NoCall EXCEPT !.op = "index", !.index = index, !.params = document],
            WireRequest("PUT", <<index, "document", "add">>, EmptyDict,
                        packb(document),
                        ("Content-Type" :> "application/msgpack")
                           @@ Headers(client.auth)))

\* indices.create(index, body) and indices_create: PUT collection/{index}.
indices_create(u, v, index, body) ==
    Request(u, v,
            [NoCall EXCEPT !.op = "indices.create", !.index = index, !.params = body],
            WireRequest("PUT", <<"collection", index>>, EmptyDict, body,
                        Headers(client.auth)))

\* indices.delete(index) and indices_delete: GET collection/{index}.
indices_delete(u, v, index) ==
    Request(u, v,
            [NoCall EXCEPT !.op = "indices.delete", !.index = index],
            WireRequest("GET", <<"collection", index>>, EmptyDict, None,
                        Headers(client.auth)))

\* indices.exists(index): GET collectionsInfo; the answer is searched for
\* the name when the wire call has returned.
indices_exists(u, v, index) ==
    Request(u, v,
            [NoCall EXCEPT !.op = "indices.exists", !.index = index],
            WireRequest("GET", <<"collectionsInfo">>, EmptyDict, None,
                        Headers(client.auth)))

\* -------------------------------------- operations the backend has not
StubOps ==
    {"indices.refresh", "indices.put_settings", "indices.shrink",
     "indices.forcemerge", "indices.delete_index_template",
     "cluster.put_settings", "cluster.put_component_template",
     "cluster.delete_component_template", "cluster.put_index_template"}

\* self._client._debug_log(...); return {}.  The unit can call it wherever
\* it runs, an exception handler included.
Stub_via_transport(u, name) ==
    Request(u, "sync", [NoCall EXCEPT !.op = name, !.result = "empty"],
            WireRequest("POST", <<name>>, EmptyDict, "none", Headers(client.auth)))

Stub(u, name) ==
    /\ client.state = "ready"
    /\ req[u].pc = "idle"
    /\ call' = [call EXCEPT ![u] = [NoCall EXCEPT !.op = name, !.result = "empty"]]
    /\ UNCHANGED <<now, lim, cell, heap, mgrs, req, closed, client, wire>>

\* ------------------------------------------------------- specifications
InitAt(l) ==
    /\ now = 1
    /\ lim = l
    /\ cell = [u \in Units |-> MISSING]
    /\ heap = <<>>
    /\ mgrs = [u \in Units |-> <<>>]
    /\ req = [u \in Units |-> NoRequest]

\* The caller works with a client constructed without credentials, calls no
\* client method and keeps no scope object after leaving the scope.
InitExt ==
    /\ closed = [u \in Units |-> NoClosed]
    /\ client = ReadyClient
    /\ wire = <<>>
    /\ call = [u \in Units |-> NoCall]

Scopes(u) ==
    \/ aenter(u) /\ UNCHANGED ext
    \/ aexit(u) /\ UNCHANGED ext

Transport(u) ==
    \/ SyncTransport_perform_request(u) /\ UNCHANGED ext
    \/ \E o \in SyncOutcomes : SyncTransport_complete(u, o) /\ UNCHANGED ext
    \/ AsyncTransport_perform_request(u) /\ UNCHANGED ext
    \/ \E ok \in BOOLEAN : AsyncTransport_response(u, ok) /\ UNCHANGED ext
    \/ \E o \in ReadOutcomes : AsyncTransport_read(u, o) /\ UNCHANGED ext
    \/ AsyncTransport_connection_error(u) /\ UNCHANGED ext
    \/ AsyncTransport_cancel(u) /\ UNCHANGED ext
    \/ handled(u) /\ UNCHANGED ext

Hooks(u) ==
    \/ on_client_request_start(u) /\ UNCHANGED ext
    \/ on_client_request_end(u) /\ UNCHANGED ext
    \/ on_request_start(u) /\ UNCHANGED ext
    \/ on_request_end(u) /\ UNCHANGED ext
    \/ handled(u) /\ UNCHANGED ext

\* One unit: scopes at every depth, both transports, the clock running.
Init == InitAt([time |-> MaxTime, ops |-> MaxOps]) /\ InitExt

Next == Scopes(1) \/ Transport(1)

Spec == Init /\ [][Next]_vars

\* One unit calling the hooks directly inside its scopes.
NextHooks == Scopes(1) \/ Hooks(1)

SpecHooks == Init /\ [][NextHooks]_vars

\* One unit that keeps the object of the root scope it left and reads it.
NextRoot ==
    \/ Enter(1)
    \/ Leave(1)
    \/ read_properties(1)
    \/ Transport(1)

SpecRoot == Init /\ [][NextRoot]_vars

\* One unit that constructs a client and calls its methods, inside scopes
\* and outside; the clock stands still.
IndexNames == {<<"l", "-", "1">>, <<"l", "-", "*">>}

SearchParams ==
    {NoParams, Dict(EmptyDict), Dict([size |-> 5]), Dict([from |-> 2]),
     Dict([size |-> 0, from |-> 2])}

BulkBodies ==
    {Body("list", <<>>, FALSE),
     Body("list", <<"with_id", "plain">>, FALSE),
     Body("bytes", <<"meta_create", "plain", "meta_index", "with_id">>, TRUE),
     Body("str", <<"meta_index", "sep">>, FALSE)}

Variants == {"sync", "async"}

InitClient == InitAt([time |-> 1, ops |-> ApiOps]) /\ InitExt

NextClient ==
    \/ aenter(1) /\ UNCHANGED ext
    \/ aexit(1) /\ UNCHANGED ext
    \/ \E v \in Variants, i \in IndexNames, p \in SearchParams : search(1, v, i, p)
    \/ \E v \in Variants, i \in IndexNames, b \in BulkBodies : bulk(1, v, i, b)
    \/ \E s \in Statuses, b \in Bodies : SyncTransport_answer(1, s, b)
    \/ SyncTransport_connection_error(1)
    \/ \E s \in Statuses : AsyncTransport_answer(1, s)
    \/ \E b \in Bodies : AsyncTransport_decode(1, b)
    \/ AsyncTransport_fails(1)
    \/ AsyncTransport_cancelled(1)
    \/ handled(1) /\ UNCHANGED ext

SpecClient == InitClient /\ [][NextClient]_vars

\* One unit that indexes documents and creates, deletes and looks up
\* collections, with every answer of the backend.
ConfigBodies == {None, "config"}

NextIndices ==
    \/ aenter(1) /\ UNCHANGED ext
    \/ aexit(1) /\ UNCHANGED ext
    \/ \E v \in Variants, i \in IndexNames, d \in Documents : client_index(1, v, i, d)
    \/ \E v \in Variants, i \in IndexNames, b \in ConfigBodies :
          indices_create(1, v, i, b)
    \/ \E v \in Variants, i \in IndexNames : indices_delete(1, v, i)
    \/ \E v \in Variants, i \in IndexNames : indices_exists(1, v, i)
    \/ \E s \in Statuses, b \in Responses : SyncTransport_answer(1, s, b)
    \/ SyncTransport_connection_error(1)
    \/ \E s \in Statuses : AsyncTransport_answer(1, s)
    \/ \E b \in Responses : AsyncTransport_decode(1, b)
    \/ AsyncTransport_fails(1)
    \/ AsyncTransport_cancelled(1)
    \/ handled(1) /\ UNCHANGED ext

SpecIndices == InitClient /\ [][NextIndices]_vars

\* The blocking client on unit 1 and the suspending client on unit 2, given
\* the same call and the same answer: unit 1 leads, and once it has the
\* result of a client method unit 2 enters a scope if that call was made in
\* one, makes the same call and gets the same answer.
PairParams == {NoParams, Dict([from |-> 2])}

PairBodies ==
    {Body("list", <<"with_id", "plain">>, FALSE), Body("str", <<"meta_index", "sep">>, FALSE)}

PairStubs == {"indices.refresh", "cluster.put_settings"}

PairResponses ==
    {Response(t, c) : t \in {<<"application/json">>, <<"text/plain">>},
                      c \in {"", "doc", "bad", "list_1", "env_other"}}

InitPair == InitAt([time |-> 1, ops |-> PairOps]) /\ InitExt

\* Unit 1 has the result of its client method and has not gone on.
Called(u) ==
    /\ call[u].op # "none"
    /\ req[u].pc = "idle"
    /\ call[u].op \in StubOps \/ req[u].result # "none" \/ req[u].exc # "none"

\* Unit 1 starts operations while unit 2 keeps its half of them.
Leader ==
    /\ mgrs[2] = <<>>
    /\ call[2].op = "none"
    /\ \/ /\ lim.ops > PairOps \div 2
          /\ \/ aenter(1) /\ UNCHANGED ext
             \/ \E i \in IndexNames, p \in PairParams : search(1, "sync", i, p)
             \/ \E i \in IndexNames, b \in PairBodies : bulk(1, "sync", i, b)
             \/ \E i \in IndexNames, d \in {"plain", "with_id"} :
                   client_index(1, "sync", i, d)
             \/ \E i \in IndexNames, b \in ConfigBodies : indices_create(1, "sync", i, b)
             \/ \E i \in IndexNames : indices_delete(1, "sync", i)
             \/ \E i \in IndexNames : indices_exists(1, "sync", i)
             \/ \E n \in PairStubs : Stub(1, n)
       \/ aexit(1) /\ UNCHANGED ext
       \/ \E s \in Statuses, b \in PairResponses : SyncTransport_answer(1, s, b)
       \/ SyncTransport_connection_error(1)
       \/ handled(1) /\ UNCHANGED ext

SameCall(u, k) ==
    CASE k.op = "search" -> search(u, "async", k.index, k.params)
      [] k.op = "bulk" -> bulk(u, "async", k.index, k.params)
      [] k.op = "index" -> client_index(u, "async", k.index, k.params)
      [] k.op = "indices.create" -> indices_create(u, "async", k.index, k.params)
      [] k.op = "indices.delete" -> indices_delete(u, "async", k.index)
      [] k.op = "indices.exists" -> indices_exists(u, "async", k.index)
      [] OTHER -> Stub(u, k.op)

Follower ==
    /\ Called(1)
    /\ \/ /\ call[1].sent = 1
          /\ mgrs[2] = <<>>
          /\ call[2].op = "none"
          /\ aenter(2)
          /\ UNCHANGED ext
       \/ /\ call[2].op = "none"
          /\ call[1].sent = 1 <=> mgrs[2] # <<>>
          /\ SameCall(2, call[1])
       \/ /\ call[1].status # 0
          /\ AsyncTransport_answer(2, call[1].status)
       \/ /\ call[1].status = 0
          /\ AsyncTransport_fails(2)
       \/ AsyncTransport_decode(2, call[1].resp)

NextPair == Leader \/ Follower

SpecPair == InitPair /\ [][NextPair]_vars

\* Unit 1 starts unit 2, as a thread or as a task, before or inside its
\* outermost scope.  A thread starts with an empty context; a task runs in a
\* copy of the context of the unit that creates it, so the ContextVar has
\* for it the value it had for its creator.
start_thread(u, w) ==
    /\ Idle(u)
    /\ Active(cell, u) # NoContext
    /\ Len(mgrs[u]) <= 1
    /\ cell[CellOf(w)] = NoContext
    /\ cell' = [cell EXCEPT ![CellOf(w)] = MISSING]
    /\ UNCHANGED <<now, lim, heap, mgrs, req, ext>>

create_task(u, w) ==
    /\ Idle(u)
    /\ Active(cell, u) # NoContext
    /\ Len(mgrs[u]) <= 1
    /\ cell[CellOf(w)] = NoContext
    /\ cell' = [cell EXCEPT ![CellOf(w)] = Active(cell, u)]
    /\ UNCHANGED <<now, lim, heap, mgrs, req, ext>>

\* The dict the next scope of unit u creates is a new object: no other unit
\* refers to a dict of that name.
Fresh(u) ==
    \A w \in Units \ {u} :
        LET id == <<u, Len(mgrs[u]) + 1>>
        IN  /\ Active(cell, w) # id
            /\ \A i \in DOMAIN mgrs[w] : mgrs[w][i].token.old_value # id

InitSpawn ==
    /\ now = 1
    /\ lim = [time |-> ConcTime, ops |-> ConcOps]
    /\ cell = [u \in Units |-> IF u = 1 THEN MISSING ELSE NoContext]
    /\ heap = <<>>
    /\ mgrs = [u \in Units |-> <<>>]
    /\ req = [u \in Units |-> NoRequest]
    /\ InitExt

NextSpawn ==
    \/ start_thread(1, 2)
    \/ create_task(1, 2)
    \/ \E u \in Units :
          /\ Active(cell, u) # NoContext
          /\ Fresh(u)
          /\ Scopes(u) \/ Transport(u)

SpecSpawn == InitSpawn /\ [][NextSpawn]_vars

\* One unit that calls the operations the backend has not between its
\* scopes and perform_requests.
NextStubs ==
    \/ Scopes(1)
    \/ Transport(1)
    \/ \E n \in StubOps : Stub(1, n)

SpecStubs == InitClient /\ [][NextStubs]_vars

\* One unit that constructs a client, with every combination of credentials
\* and every answer to the login, and then uses it.
InitAuth ==
    /\ InitAt([time |-> 1, ops |-> AuthOps])
    /\ closed = [u \in Units |-> NoClosed]
    /\ client = NewClient
    /\ wire = <<>>
    /\ call = [u \in Units |-> NoCall]

NextAuth ==
    \/ \E t \in Tokens, n \in Users, p \in Passwords, a \in LoginAnswers :
          construct(t, n, p, a)
    \/ client.state = "ready" /\ aenter(1) /\ UNCHANGED ext
    \/ aexit(1) /\ UNCHANGED ext
    \/ \E i \in IndexNames : search(1, "sync", i, NoParams)
    \/ \E s \in Statuses, b \in Bodies : SyncTransport_answer(1, s, b)
    \/ SyncTransport_connection_error(1)
    \/ handled(1) /\ UNCHANGED ext

SpecAuth == InitAuth /\ [][NextAuth]_vars

\* The bulk codec applied to every body of up to MaxLines lines.
RECURSIVE SeqsUpTo(_, _)
SeqsUpTo(S, n) ==
    IF n = 0 THEN {<<>>}
    ELSE LET shorter == SeqsUpTo(S, n - 1)
         IN  shorter \cup {Append(q, x) : q \in {r \in shorter : Len(r) = n - 1}, x \in S}

BulkInputs ==
    {Body(k, q, p) : k \in TextKinds \cup {"list"}, q \in SeqsUpTo(JsonValues, MaxLines),
                     p \in BOOLEAN}

InitParse ==
    /\ InitAt([time |-> 1, ops |-> 0])
    /\ closed = [u \in Units |-> NoClosed]
    /\ client = ReadyClient
    /\ wire = <<>>
    /\ \E b \in BulkInputs :
         call = [u \in Units |->
                   IF u = 1 THEN [NoCall EXCEPT !.op = "input", !.params = b]
                   ELSE NoCall]

\* HyperspaceClient._parse_bulk_body(body) returns or raises.
parse(u) ==
    /\ call[u].op = "input"
    /\ LET r == parse_bulk_body(call[u].params)
       IN  call' = [call EXCEPT ![u].op = "_parse_bulk_body",
                               ![u].result = r.error,
                               ![u].docs = r.docs]
    /\ UNCHANGED <<now, lim, cell, heap, mgrs, req, closed, client, wire>>

NextParse == parse(1)

SpecParse == InitParse /\ [][NextParse]_vars

\* Two units interleaved.
InitConc == InitAt([time |-> ConcTime, ops |-> ConcOps]) /\ InitExt

NextConc == \E u \in Units : Scopes(u) \/ Transport(u)

SpecConc == InitConc /\ [][NextConc]_vars

\* ================================================================ claims
\* The dicts of the scopes that are open.
OpenIds == UNION {{mgrs[u][i].ctx : i \in DOMAIN mgrs[u]} : u \in Units}

\* A perform_request whose start hooks wrote dict c is in flight.
InFlight(c) ==
    \E u \in Units : req[u].pc # "idle" /\ req[u].trace[1].ctx = c

SetMax(S) == CHOOSE x \in S : \A y \in S : y <= x

\* C1: a parent scope with no wire call of its own, into which one child
\* scope was merged that held one perform_request whose end reading lies
\* before its client end: the parent's client_request_start and request_start
\* are the child's, and its derived request_end is the child's.
C1_Original ==
    \A c \in OpenIds :
        LET p == heap[c]
        IN  (/\ p.res = <<>> /\ ~InFlight(c) /\ req[c[1]].exc = "none"
             /\ p.k = 1 /\ p.kleaf /\ p.klast[2] > 0)
            => /\ client_request_start(p) = p.kfirst[1]
               /\ request_start(p) = p.kfirst[2]
               /\ request_end(p, now) = p.klast[2]

\* C2: a parent scope with no wire call of its own, into which n >= 2 child
\* scopes with one perform_request each were merged one after another: its
\* starts are those finalized by the first child, its client_request_end and
\* derived request_end those finalized by the last.
C2_Original ==
    \A c \in OpenIds :
        LET p == heap[c]
        IN  (/\ p.res = <<>> /\ ~InFlight(c) /\ req[c[1]].exc = "none"
             /\ p.k >= 2 /\ p.kleaf)
            => /\ client_request_start(p) = p.kfirst[1]
               /\ request_start(p) = p.kfirst[2]
               /\ p.cre = p.klast[1]
               /\ request_end(p, now) = p.klast[2]

\* C3: the derived request_end of a dict whose client_request_end is T is the
\* greatest entry of request_end_list strictly below T, and 0 if there is none.
C3_DerivedRequestEnd ==
    \A c \in DOMAIN heap :
        LET m == heap[c]
            S == {m.ends[i] : i \in DOMAIN m.ends} \cap (0..(m.cre - 1))
        IN  m.cre # NONE
            => request_end(m, now) = IF S = {} THEN 0 ELSE SetMax(S)

\* A scope whose list holds an end below, one at and one above T.
C3_Witness ==
    \E c \in OpenIds :
        LET m == heap[c]
        IN  /\ m.cre # NONE
            /\ \E i, j, l \in DOMAIN m.ends :
                 m.ends[i] < m.cre /\ m.ends[j] = m.cre /\ m.ends[l] > m.cre

\* The names of the events of a trace, and how often e is among them.
Evs(tr) == [i \in DOMAIN tr |-> tr[i].ev]

Count(tr, e) == Cardinality({i \in DOMAIN tr : tr[i].ev = e})

FullTrace ==
    <<"on_client_request_start", "on_request_start", "wire",
      "on_request_end", "on_client_request_end">>

\* C4: every perform_request that has returned or raised produced the events
\* on_client_request_start, on_request_start, one wire call, on_request_end,
\* on_client_request_end, in this order; while it is in flight the first
\* three.
C4_Original ==
    \A u \in Units :
        req[u].variant # "none"
        => Evs(req[u].trace) = IF req[u].pc = "idle" THEN FullTrace
                               ELSE SubSeq(FullTrace, 1, 3)

\* The same for the perform_requests called with a scope active.
C4_InScope ==
    \A u \in Units :
        (req[u].variant # "none" /\ req[u].result # "LookupError")
        => Evs(req[u].trace) = IF req[u].pc = "idle" THEN FullTrace
                               ELSE SubSeq(FullTrace, 1, 3)

\* C5: once the start hooks of a perform_request have run, on_request_end and
\* on_client_request_end have each run exactly once, as its last two events
\* and with their writes in the dict (while the dict is kept), when it has
\* returned or raised, and not before.
C5_EndHooksOnce ==
    \A u \in Units :
        LET tr == req[u].trace
        IN  tr # <<>>
            => IF req[u].pc = "idle"
               THEN /\ Count(tr, "on_request_end") = 1
                    /\ Count(tr, "on_client_request_end") = 1
                    /\ tr[Len(tr) - 1].ev = "on_request_end"
                    /\ tr[Len(tr)].ev = "on_client_request_end"
                    /\ tr[Len(tr)].ctx \in DOMAIN heap
                       => /\ heap[tr[Len(tr)].ctx].cre # NONE
                          /\ heap[tr[Len(tr)].ctx].ends # <<>>
               ELSE /\ Count(tr, "on_request_end") = 0
                    /\ Count(tr, "on_client_request_end") = 0

\* A suspended perform_request was cancelled.
C5_Witness ==
    \E u \in Units :
        /\ req[u].result = "CancelledError"
        /\ req[u].exc = "CancelledError"
        /\ Len(req[u].trace) = 5

C7_CancelCleanup ==
    \A u \in Units :
        req[u].cancelled
        => /\ Active(cell, u) =
                 IF mgrs[u] = <<>> THEN MISSING ELSE mgrs[u][Len(mgrs[u])].ctx
           /\ \A i \in DOMAIN mgrs[u] :
                 mgrs[u][i].token.old_value =
                     IF i = 1 THEN MISSING ELSE mgrs[u][i - 1].ctx
           /\ req[u].exc = "none"
              => \A i \in DOMAIN mgrs[u] :
                    LET m == heap[mgrs[u][i].ctx]
                    IN  /\ m.crs \in {NONE, 0}
                        /\ m.rs \in {NONE, 0}
                        /\ \A j \in DOMAIN m.ends : m.ends[j] = 0
                        /\ m.res = <<>>
                        /\ m.writers \subseteq {u}

\* The cancelled call was inside a scope, the scope was left, and another
\* scope has been entered on the unit since.
C7_Witness ==
    \E u \in Units :
        /\ req[u].cancelled
        /\ req[u].exc = "none"
        /\ mgrs[u] # <<>>
        /\ heap[mgrs[u][1].ctx] = EmptyCtx

\* C8: the hooks of a suspending perform_request all write the same dict, the
\* one active when it started, and that dict is the active one for as long as
\* the call is suspended.
C8_SameContext ==
    \A u \in Units :
        LET tr == req[u].trace
        IN  (req[u].variant = "async" /\ tr # <<>>)
            => /\ \A i \in DOMAIN tr : tr[i].ev # "wire" => tr[i].ctx = tr[1].ctx
               /\ tr[1].ctx[1] = u
               /\ req[u].pc # "idle" => Active(cell, u) = tr[1].ctx

\* A suspending call has resumed and run its end hooks after another unit
\* stepped during the suspension, and that unit has entered and left a scope
\* with a perform_request of its own.
C8_Witness ==
    \E u, w \in Units :
        /\ u # w
        /\ req[u].variant = "async"
        /\ Len(req[u].trace) = 5
        /\ req[u].overlap
        /\ mgrs[w] = <<>>
        /\ <<w, 1>> \in DOMAIN heap
        /\ heap[<<w, 1>>].res # <<>>

\* C9: no hook and no perform_request raises.
C9_Original == \A u \in Units : req[u].exc # "LookupError"

\* C10: a dict into which no nested scope was merged and to which k >= 1
\* perform_requests were applied holds the start readings of the first, the
\* client end reading of the last, and the k end readings in call order.
C10_SequentialCalls ==
    \A c \in DOMAIN heap :
        LET m == heap[c]
        IN  (m.k = 0 /\ m.res # <<>>)
            => /\ m.crs = m.first[1]
               /\ m.rs = m.first[2]
               /\ m.cre = m.lastce
               /\ m.ends = m.res

\* Three calls in one scope, begun and ended at different readings.
C10_Witness ==
    \E c \in DOMAIN heap :
        LET m == heap[c]
        IN  /\ m.k = 0
            /\ Len(m.res) = 3
            /\ m.first[1] < m.res[1]
            /\ m.res[1] < m.res[3]

\* C11: leaving a root scope writes no dict, and the four timing properties
\* read from the scope object after the exit are those read at the end of
\* the block, on every read.
C11_Original ==
    \A u \in Units :
        closed[u] # NoClosed
        => /\ closed[u].frame
           /\ closed[u].read # <<>> => closed[u].read = closed[u].before

\* The same for the root scopes whose dict holds client_request_end (a
\* perform_request completed in the scope or in a scope nested in it).
C11_AfterWireCall ==
    \A u \in Units :
        (closed[u] # NoClosed /\ closed[u].m.cre # NONE)
        => /\ closed[u].frame
           /\ closed[u].read # <<>> => closed[u].read = closed[u].before

\* A 2xx status.
Is2xx(status) == status >= 200 /\ status < 300

\* The search of unit u has returned or raised, its wire call having been
\* answered with the status in call[u].
SearchAnswered(u) ==
    /\ call[u].op = "search"
    /\ call[u].status # 0
    /\ req[u].pc = "idle"

\* C12: a search whose wire call was answered with a non-2xx status has
\* dispatched exactly one wire call, POST {index}/dsl_search, and has returned
\* the empty-hit result if the index name contains '*' and raised the
\* protocol error if not; blocking and suspending client alike.
C12_Original ==
    \A u \in Units :
        (SearchAnswered(u) /\ ~Is2xx(call[u].status))
        => /\ call[u].sent = 1
           /\ wire[Len(wire)].method = "POST"
           /\ wire[Len(wire)].path = <<call[u].index, "dsl_search">>
           /\ call[u].result = IF HasWildcard(call[u].index) THEN "empty_hits"
                                ELSE "HTTPError"

\* The same for the statuses from 400 on.
C12_ErrorStatus ==
    \A u \in Units :
        (SearchAnswered(u) /\ call[u].status >= 400)
        => /\ call[u].sent = 1
           /\ wire[Len(wire)].method = "POST"
           /\ wire[Len(wire)].path = <<call[u].index, "dsl_search">>
           /\ call[u].result = IF HasWildcard(call[u].index) THEN "empty_hits"
                                ELSE "HTTPError"

\* C13: the request a search sent carries size: 10 if the caller gave no
\* params or params without size, the caller's value if it gave one; every
\* other key of the caller is sent with the caller's value, and no other key.
C13_SearchSize ==
    /\ \A i \in DOMAIN wire :
          wire[i].path[Len(wire[i].path)] = "dsl_search"
          => "size" \in DOMAIN wire[i].params
    /\ \A u \in Units :
          (call[u].op = "search" /\ call[u].sent = 1)
          => LET p   == call[u].params
                 out == wire[Len(wire)].params
             IN  /\ out["size"] = IF p.given /\ "size" \in DOMAIN p.dict
                                  THEN p.dict["size"] ELSE 10
                 /\ DOMAIN out = DOMAIN p.dict \cup {"size"}
                 /\ \A key \in DOMAIN p.dict : out[key] = p.dict[key]

\* A search with size 0 and another key was sent and has returned.
C13_Witness ==
    \E u \in Units :
        /\ call[u].op = "search"
        /\ call[u].params = Dict([size |-> 0, from |-> 2])
        /\ call[u].result = "json"
        /\ wire[Len(wire)].params = [size |-> 0, from |-> 2]

\* C14: an operation the backend has not can be called wherever the unit
\* runs, returns the empty result, raises nothing, dispatches nothing and
\* leaves every context, the active one included, as it was.
C14_StubsNoop ==
    /\ [](\A u \in Units : \A n \in StubOps :
            req[u].pc = "idle" => ENABLED Stub(u, n))
    /\ [][\A u \in Units :
            (call'[u] # call[u] /\ call'[u].op \in StubOps)
            => /\ call'[u].result = "empty"
               /\ call'[u].sent = 0
               /\ wire' = wire
               /\ heap' = heap
               /\ cell' = cell
               /\ req' = req]_vars

\* An operation the backend has not returned with no scope active, while the
\* connection error of the wire call before is still being handled.
C14_Witness ==
    \E u \in Units :
        /\ call[u].op \in StubOps
        /\ call[u].result = "empty"
        /\ Active(cell, u) = MISSING
        /\ req[u].exc = "ConnectionError"

\* The lines are action/document pairs, and the documents of the pairs.
IsPairs(values) ==
    /\ Len(values) % 2 = 0
    /\ \A i \in DOMAIN values :
          IF i % 2 = 1 THEN values[i] \in ActionLines ELSE values[i] \in Documents

PairDocs(values) == [i \in 1..(Len(values) \div 2) |-> values[2 * i]]

\* C15: parse returns a list unchanged, and for a string, bytes, file or
\* handle holding N action/document pairs it returns the N documents of the
\* pairs, in order, whatever the documents are.
C15_Original ==
    \A u \in Units :
        call[u].op = "_parse_bulk_body"
        => LET b == call[u].params
           IN  /\ b.kind = "list"
                  => call[u].result = "none" /\ call[u].docs = b.data
               /\ (b.kind # "list" /\ IsPairs(b.src))
                  => call[u].result = "none" /\ call[u].docs = PairDocs(b.src)

\* The same for the documents whose text holds no U+2028.
C15_SingleLineDocs ==
    \A u \in Units :
        call[u].op = "_parse_bulk_body"
        => LET b == call[u].params
           IN  /\ b.kind = "list"
                  => call[u].result = "none" /\ call[u].docs = b.data
               /\ (b.kind # "list" /\ IsPairs(b.src)
                     /\ \A i \in DOMAIN b.src : b.src[i] # "sep")
                  => call[u].result = "none" /\ call[u].docs = PairDocs(b.src)

\* The payload of the last wire request is the list of the envelopes of
\* docs: the document's own _id, or "", and the packed document.
IsBatchOf(docs) ==
    LET body == wire[Len(wire)].body
    IN  /\ body[1] = "msgpack"
        /\ Len(body[2]) = Len(docs)
        /\ \A i \in DOMAIN docs :
              /\ body[2][i]._id = IF docs[i] = "with_id" THEN "7" ELSE ""
              /\ body[2][i].doc_data = <<"msgpack", docs[i]>>

\* C16: a bulk whose body was parsed into N >= 0 documents has dispatched
\* exactly one wire call, POST {index}/batch, whose payload is the list of
\* the N envelopes in the order of the documents.
C16_Original ==
    \A u \in Units :
        (call[u].op = "bulk" /\ call[u].result # "DecodeError")
        => /\ call[u].sent = 1
           /\ wire[Len(wire)].method = "POST"
           /\ wire[Len(wire)].path = <<call[u].index, "batch">>
           /\ IsBatchOf(call[u].docs)

\* The same for the bulks called with a scope active.
C16_InScope ==
    \A u \in Units :
        (call[u].op = "bulk" /\ call[u].result \notin {"DecodeError", "LookupError"})
        => /\ call[u].sent = 1
           /\ wire[Len(wire)].method = "POST"
           /\ wire[Len(wire)].path = <<call[u].index, "batch">>
           /\ IsBatchOf(call[u].docs)

\* An action-metadata line is the last line, or the line after it is one.
Dangling(values) ==
    \E i \in DOMAIN values :
        /\ values[i] \in ActionLines
        /\ i = Len(values) \/ values[i + 1] \in ActionLines

\* C17: parse of a text in which an action-metadata line has no document
\* line after it fails with DecodeError, and parse of a text never returns
\* an action-metadata object as a document.
C17_Original ==
    \A u \in Units :
        (call[u].op = "_parse_bulk_body" /\ call[u].params.kind # "list")
        => /\ Dangling(call[u].params.src) => call[u].result = "DecodeError"
           /\ \A i \in DOMAIN call[u].docs : call[u].docs[i] \notin ActionLines

\* The credentials hold exactly one of login_user and login_password.
OneOfPair(args) == (args[2] = None) # (args[3] = None)

IsLogin(wr) == wr.method = "POST" /\ wr.path = <<"login">>

\* C18: constructing a client with exactly one of login_user and
\* login_password, with a token or without, raises the configuration error
\* and dispatches nothing.
C18_Original ==
    (client.state # "new" /\ OneOfPair(client.args))
    => /\ client.state = "failed"
       /\ client.error = "ValueError"
       /\ wire = <<>>

\* The same for the constructions without a token.
C18_NoToken ==
    (client.state # "new" /\ OneOfPair(client.args) /\ ~Truthy(client.args[1]))
    => /\ client.state = "failed"
       /\ client.error = "ValueError"
       /\ wire = <<>>

\* C19: constructed with a token, the client holds "Bearer <token>" and no
\* login was sent.  Constructed without a token and with login_user and
\* login_password, the login is the first wire request and the only login;
\* a 2xx answer with a token (field token, else access_token) makes the
\* client hold that token; an answer with a status from 400 on, no answer,
\* or an answer without a token makes the construction fail with no
\* Authorization header kept and nothing else sent.
C19_Construction ==
    LET args == client.args
        ans  == client.login
        data == LoginData(ans.body)
    IN  client.state # "new"
        => /\ Truthy(args[1])
              => /\ client.state = "ready"
                 /\ client.auth = <<"Bearer", args[1]>>
                 /\ \A i \in DOMAIN wire : ~IsLogin(wire[i])
           /\ (~Truthy(args[1]) /\ args[2] # None /\ args[3] # None)
              => /\ wire # <<>>
                 /\ IsLogin(wire[1])
                 /\ wire[1].body = <<args[2], args[3]>>
                 /\ \A i \in DOMAIN wire : IsLogin(wire[i]) => i = 1
                 /\ (Is2xx(ans.status) /\ ans.body \in {"token", "both"})
                    => client.state = "ready" /\ client.auth = <<"Bearer", "T1">>
                 /\ (Is2xx(ans.status) /\ ans.body \in {"access_token", "empty_token"})
                    => client.state = "ready" /\ client.auth = <<"Bearer", "T2">>
                 /\ (ans.status = 0 \/ ans.status >= 400
                       \/ ans.body \in {"no_token", "empty", "bad"})
                    => /\ client.state = "failed"
                       /\ client.auth = NoAuth
                       /\ Len(wire) = 1

\* A client logged in with the access_token of an answer whose token is
\* empty, and has sent a search since.
C19_Witness ==
    /\ client.state = "ready"
    /\ client.login = [status |-> 200, body |-> "empty_token"]
    /\ client.auth = <<"Bearer", "T2">>
    /\ Len(wire) = 2
    /\ call[1].op = "search"

\* The perform_request of the client method of unit u has returned or raised
\* after its wire call was dispatched.
Performed(u) ==
    /\ call[u].sent = 1
    /\ req[u].variant # "none"
    /\ req[u].pc = "idle"

\* C20: perform_request returns a decoded result only for a 2xx answer; for
\* every other status it raises the protocol error, and with no answer the
\* transport error (or the cancellation).
C20_Original ==
    \A u \in Units :
        Performed(u)
        => /\ req[u].result \in {"json", "empty"} => Is2xx(call[u].status)
           /\ (call[u].status # 0 /\ ~Is2xx(call[u].status))
              => req[u].result = "HTTPError"
           /\ call[u].status = 0
              => req[u].result \in {"ConnectionError", "CancelledError"}

\* The same with the statuses below 400 taken as 2xx is.
C20_ErrorStatus ==
    \A u \in Units :
        Performed(u)
        => /\ req[u].result \in {"json", "empty"} => call[u].status \in 1..399
           /\ call[u].status >= 400 => req[u].result = "HTTPError"
           /\ call[u].status = 0
              => req[u].result \in {"ConnectionError", "CancelledError"}

\* The perform_request of unit u's client method got an answer with a 2xx
\* status and its content, and the caller has its result or exception.
GotContent(u) ==
    /\ call[u].sent = 1
    /\ Is2xx(call[u].status)
    /\ req[u].pc = "idle"
    /\ req[u].result \in {"json", "empty", "DecodeError"}

\* The answer declares a JSON content type: application/json, with or
\* without parameters.
DeclaresJson(resp) == resp.ctype # <<>> /\ resp.ctype[1] = "application/json"

\* C21: for a successful answer perform_request returns the decoded content
\* exactly when the answer declares a JSON content type and its content is
\* not empty (a malformed content then raises the decoding error); in every
\* other case it returns {} and decodes nothing, in both variants.
C21_DecodedIffJson ==
    \A u \in Units :
        GotContent(u)
        => LET resp == call[u].resp
           IN  IF DeclaresJson(resp) /\ resp.content # ""
               THEN req[u].result =
                       IF IsJsonText(resp.content) THEN "json" ELSE "DecodeError"
               ELSE req[u].result = "empty"

\* A content that is no JSON text, not declared as JSON, has been answered
\* to the suspending variant, which returned {}.
C21_Witness ==
    \E u \in Units :
        /\ GotContent(u)
        /\ req[u].variant = "async"
        /\ call[u].resp = Response(<<"text/plain">>, "bad")
        /\ req[u].result = "empty"

\* The entries of a listing: the sequence itself, or the sequence a map
\* envelops under "collections"; none for any other value.
ListingEntries(x) ==
    IF x.type = "list" THEN x.v
    ELSE IF x.type = "dict" /\ Key("collections") \in DOMAIN x.v
    THEN x.v[Key("collections")].v
    ELSE <<>>

\* The listing x has an entry whose name field equals index.
HasEntryNamed(x, index) ==
    \E i \in DOMAIN ListingEntries(x) :
        LET c == ListingEntries(x)[i]
        IN  /\ c.type = "dict"
            /\ Key("name") \in DOMAIN c.v
            /\ c.v[Key("name")].type = "str"
            /\ c.v[Key("name")].v = index

\* The listings whose entries are maps, bare or enveloped, and the empty
\* ones.
EntryListings ==
    {"[]", "{}", "list_1", "list_other_1", "list_star", "list_no_name",
     "env_1", "env_other", "env_empty"}

\* indices.exists got its listing and returned.
GotListing(u) ==
    /\ call[u].op = "indices.exists"
    /\ GotContent(u)
    /\ req[u].result \in {"json", "empty"}

\* C22: indices.exists(index) issues one GET to collectionsInfo and returns
\* true exactly when the listing has an entry whose name field equals index,
\* for a bare sequence and for a map enveloping it; false for an empty
\* listing and an empty answer.  (As stated: of every call.)
C22_Original ==
    \A u \in Units :
        call[u].op = "indices.exists"
        => /\ call[u].sent = 1
           /\ call[u].request.method = "GET"
           /\ call[u].request.path = <<"collectionsInfo">>
           /\ GotListing(u)
              => call[u].result =
                    Bool(HasEntryNamed(ReturnValue(call[u].resp, req[u].result),
                                       call[u].index))

\* What holds of indices.exists: called with a scope active it issues one
\* GET to collectionsInfo, and for a listing whose entries are maps it
\* returns true exactly when one of them has the name.
C22_InScope ==
    \A u \in Units :
        (call[u].op = "indices.exists" /\ call[u].result # "LookupError")
        => /\ call[u].sent = 1
           /\ call[u].request.method = "GET"
           /\ call[u].request.path = <<"collectionsInfo">>
           /\ (GotListing(u)
               /\ (req[u].result = "json" => call[u].resp.content \in EntryListings))
              => call[u].result =
                    Bool(HasEntryNamed(ReturnValue(call[u].resp, req[u].result),
                                       call[u].index))

\* The context every open scope of unit u is to restore: the dict of the
\* scope around it, none for the outermost.
Enclosing(u, i) == IF i = 1 THEN MISSING ELSE mgrs[u][i - 1].ctx

\* C23: the active context of a unit is the dict of its innermost open scope
\* (none when it has none) and every open scope remembers the context that
\* was active when it was entered; entering installs a new empty dict, and
\* leaving restores exactly the remembered context and writes no dict but
\* the restored one, and none at all when no context is restored.
C23_EnterExitRestore ==
    /\ [](\A u \in Units :
            /\ Active(cell, u) =
                  IF mgrs[u] = <<>> THEN MISSING ELSE mgrs[u][Len(mgrs[u])].ctx
            /\ \A i \in DOMAIN mgrs[u] : mgrs[u][i].token.old_value = Enclosing(u, i))
    /\ [][\A u \in Units :
            /\ Len(mgrs'[u]) > Len(mgrs[u])
               => /\ Active(cell', u) \notin OpenIds
                  /\ heap'[Active(cell', u)] = EmptyCtx
                  /\ mgrs'[u][Len(mgrs'[u])].token.old_value = Active(cell, u)
                  /\ \A c \in OpenIds : heap'[c] = heap[c]
            /\ Len(mgrs'[u]) < Len(mgrs[u])
               => /\ Active(cell', u) = Enclosing(u, Len(mgrs[u]))
                  /\ \A c \in DOMAIN heap \cap DOMAIN heap' :
                        c # Active(cell', u) => heap'[c] = heap[c]
                  /\ Active(cell', u) = MISSING => heap' = heap]_vars

\* A scope and a scope nested in it were entered and left in turn: no
\* context is active and the outermost dict was merged into.
C23_Witness ==
    /\ mgrs[1] = <<>>
    /\ Active(cell, 1) = MISSING
    /\ <<1, 1>> \in DOMAIN heap
    /\ heap[<<1, 1>>].k >= 1

\* C24: a dict holds request_start only if it holds client_request_start,
\* and the request_start of an open scope, once recorded, is the same after
\* every later step: hook, perform_request or merge of a nested scope.
C24_RequestStartOnce ==
    /\ [](\A c \in DOMAIN heap : heap[c].rs # NONE => heap[c].crs # NONE)
    /\ [][\A c \in OpenIds :
            (c \in OpenIds' /\ heap[c].rs # NONE) => heap'[c].rs = heap[c].rs]_vars

\* A nested scope that had finalized a request_start was merged into a dict
\* that holds another one: the write of the merge was not recorded.
C24_Witness ==
    \E c \in OpenIds :
        /\ heap[c].k >= 1
        /\ heap[c].kfirst[2] # 0
        /\ heap[c].rs # NONE
        /\ heap[c].rs # heap[c].kfirst[2]

\* _parse_bulk_body has returned or raised for a body that is text: the
\* non-empty lines it scanned.
Scanned(u) ==
    /\ call[u].op = "_parse_bulk_body"
    /\ call[u].params.kind \in TextKinds

ScannedLines(u) == Lines(TextOf(call[u].params))

\* The documents of the lines L whose position satisfies keep, in order.
DocsWhere(L, keep(_)) ==
    LET idx == SelectSeq([i \in DOMAIN L |-> i], keep)
    IN  [j \in DOMAIN idx |-> loads(L[idx[j]])]

RunStart(L, i) ==
    CHOOSE s \in 1..i :
        /\ \A j \in s..i : IsActionLine(L[j])
        /\ s = 1 \/ ~IsActionLine(L[s - 1])

\* Line i is treated as action metadata: it looks like it and the flag is
\* not set, that is, it is the first, third, ... of such lines in a row.
TreatedAsAction(L, i) ==
    IsActionLine(L[i]) /\ (i - RunStart(L, i)) % 2 = 0

Exits(u) == Len(mgrs'[u]) < Len(mgrs[u])

\* The dict of the scope unit u leaves.
Leaving(u) == heap[mgrs[u][Len(mgrs[u])].ctx]

\* The values __aexit__ finalizes for the scope unit u leaves: of a nested
\* scope, the end values it hands to the parent; of a root scope, the values
\* its dict gives (its client_request_end is recorded when a perform_request
\* ran in it or below).
ExitValues(u) ==
    LET m == Leaving(u)
        p == Active(cell', u)
    IN  IF p # MISSING
        THEN [crs |-> client_request_start(m), rs |-> request_start(m),
              re |-> heap'[p].klast[2], cre |-> heap'[p].klast[1]]
        ELSE [crs |-> client_request_start(m), rs |-> request_start(m),
              re |-> request_end(m, now), cre |-> client_request_end(m, now)]

\* A perform_request ran to completion in the scope of dict m, or in each of
\* the scopes nested directly in it.
RanToCompletion(m) == m.res # <<>> \/ (m.k >= 1 /\ m.kleaf)

\* C27: at the exit of every scope within which a perform_request ran to
\* completion, directly or in a nested scope, the finalized values satisfy
\* client_request_start <= request_start <= request_end <=
\* client_request_end; the clock may return the same value twice.  (As
\* stated.)
C27_Original ==
    [][\A u \in Units :
          (Exits(u) /\ RanToCompletion(Leaving(u)))
          => LET f == ExitValues(u)
             IN  f.crs <= f.rs /\ f.rs <= f.re /\ f.re <= f.cre]_vars

\* What holds at those exits: no finalized value is later than
\* client_request_end.
C27_UpperBound ==
    [][\A u \in Units :
          (Exits(u) /\ RanToCompletion(Leaving(u)))
          => LET f == ExitValues(u)
             IN  f.crs <= f.cre /\ f.rs <= f.cre /\ f.re <= f.cre]_vars

\* Unit u leaves a nested scope in which no hook was applied and no scope
\* was nested.
ExitsEmptyChild(u) ==
    /\ Exits(u)
    /\ Len(mgrs[u]) >= 2
    /\ Leaving(u) = EmptyCtx

\* The timing fields of dict m.
Timing(m) == <<m.crs, m.rs, m.cre, m.ends>>

\* C28: the exit of a nested scope in which no hook was applied leaves
\* client_request_start, request_start, client_request_end and
\* request_end_list of the parent's dict as they were.  (As stated.)
C28_Original ==
    [][\A u \in Units :
          ExitsEmptyChild(u)
          => LET p == mgrs[u][Len(mgrs[u]) - 1].ctx
             IN  Timing(heap'[p]) = Timing(heap[p])]_vars

\* What holds at such an exit: a client_request_start and a request_start
\* the parent has recorded stay.
C28_RecordedStartsKept ==
    [][\A u \in Units :
          ExitsEmptyChild(u)
          => LET p == mgrs[u][Len(mgrs[u]) - 1].ctx
             IN  /\ heap[p].crs # NONE => heap'[p].crs = heap[p].crs
                 /\ heap[p].rs # NONE => heap'[p].rs = heap[p].rs]_vars

\* C29: the first scope entered on a unit is a root scope, also when the
\* unit was started while its starter had a scope active: its exit merges
\* into no other context, and no hook or merge of the new unit writes a dict
\* of the unit that started it.  (As stated.)
C29_Original ==
    /\ \A u \in Units :
          mgrs[u] # <<>> => mgrs[u][1].token.old_value = MISSING
    /\ \A c \in DOMAIN heap : heap[c].writers \subseteq {c[1]}

\* What holds of every unit: the scopes it enters inside its first scope
\* are nested in that scope and in no other.
C29_OwnScopes ==
    \A u \in Units :
        \A i \in DOMAIN mgrs[u] : i > 1 => mgrs[u][i].token.old_value = mgrs[u][i - 1].ctx

\* C30: when an exception leaves the body of a scope, the exit of the scope
\* keeps the exception propagating, restores the context that was active
\* before the scope, and for a nested scope merges what the scope recorded
\* into the parent as on a normal exit: its request_end is appended, its
\* client_request_end taken, its client_request_start taken if the parent
\* has none, its request_start if the parent has a client_request_start and
\* no request_start.
C30_ExitOnException ==
    [][\A u \in Units :
          (Exits(u) /\ req[u].exc # "none")
          => /\ req'[u].exc = req[u].exc
             /\ Active(cell', u) = Enclosing(u, Len(mgrs[u]))
             /\ Len(mgrs[u]) >= 2
                => LET m  == Leaving(u)
                       p  == mgrs[u][Len(mgrs[u]) - 1].ctx
                       re == heap'[p].klast[2]
                   IN  /\ heap'[p].k = heap[p].k + 1
                       /\ m.cre # NONE
                          => /\ heap'[p].cre = m.cre
                             /\ re = request_end(m, now)
                       /\ heap'[p].ends = Append(heap[p].ends, re)
                       /\ heap'[p].crs =
                             IF heap[p].crs = NONE THEN client_request_start(m)
                             ELSE heap[p].crs
                       /\ (heap[p].crs # NONE /\ heap[p].rs = NONE)
                          => heap'[p].rs = request_start(m)]_vars

\* A perform_request failed with a protocol error in a nested scope and the
\* scope was left with the error propagating: its dict is merged and gone,
\* its parent is the active context and holds its client_request_end.
C30_Witness ==
    \E u \in Units :
        /\ req[u].exc = "HTTPError"
        /\ Len(req[u].trace) = 5
        /\ req[u].trace[1].ctx \notin DOMAIN heap
        /\ mgrs[u] # <<>>
        /\ heap[Active(cell, u)].k = 1
        /\ heap[Active(cell, u)].cre # NONE

\* ------------------------------------------------------------------ C31
\* The search of unit u has returned or raised.
SearchDone(u) ==
    /\ call[u].op = "search"
    /\ call[u].result # "none"

\* C31: after a search has returned or raised, the params mapping of the
\* caller holds exactly the keys and values it held before the call.
C31_Original ==
    \A u \in Units :
        SearchDone(u) => call[u].caller = call[u].params

\* What the code keeps: a caller that gave no params or params with a size
\* finds them as they were; a caller that gave params without a size finds
\* size: 10 added to them and its other keys as they were, and the request
\* sent carries the caller's mapping as the search left it.
C31_SizeAdded ==
    \A u \in Units :
        SearchDone(u)
        => LET p == call[u].params
               q == call[u].caller
           IN  /\ (~p.given \/ "size" \in DOMAIN p.dict) => q = p
               /\ (p.given /\ "size" \notin DOMAIN p.dict)
                  => /\ q.given
                     /\ DOMAIN q.dict = DOMAIN p.dict \cup {"size"}
                     /\ q.dict["size"] = 10
                     /\ \A key \in DOMAIN p.dict : q.dict[key] = p.dict[key]
               /\ (p.given /\ call[u].sent = 1) => call[u].request.params = q.dict

\* ------------------------------------------------------------------ C32
\* The wire call of the search of unit u ends in this step.
SearchEnds(u) ==
    /\ call[u].op = "search"
    /\ req[u].pc # "idle"
    /\ req'[u].pc = "idle"

\* C32: a search returns the empty-hit result only for a wildcard index whose
\* wire call was answered with a non-2xx status; a search whose wire call
\* failed at connection level raises the transport error, on a wildcard index
\* too; and in both cases on_request_end and on_client_request_end have
\* written the context active on the unit before the caller gets the result
\* or the exception.
C32_WildcardRecovery ==
    /\ [](\A u \in Units :
            (SearchDone(u) /\ call[u].result = "empty_hits")
            => /\ HasWildcard(call[u].index)
               /\ call[u].status # 0
               /\ ~Is2xx(call[u].status))
    /\ [][\A u \in Units :
            SearchEnds(u)
            => LET c         == Active(cell, u)
                   failed    == req'[u].result = "ConnectionError"
                   recovered == call'[u].result = "empty_hits"
                   tr        == req'[u].trace
               IN  /\ failed
                      => /\ req'[u].exc = "ConnectionError"
                         /\ call'[u].result = "ConnectionError"
                   /\ recovered
                      => /\ req'[u].result = "HTTPError"
                         /\ req'[u].exc = "none"
                   /\ (failed \/ recovered)
                      => /\ c # MISSING
                         /\ Active(cell', u) = c
                         /\ Len(tr) = 5
                         /\ tr[4] = Event("on_request_end", c)
                         /\ tr[5] = Event("on_client_request_end", c)
                         /\ Len(heap'[c].ends) = Len(heap[c].ends) + 1
                         /\ heap'[c].ends[Len(heap'[c].ends)] >= req[u].t0[2]
                         /\ heap'[c].cre >= heap'[c].ends[Len(heap'[c].ends)]
                         /\ heap'[c].cre = now'
          ]_vars

\* A search on a wildcard index, inside a scope, whose wire call failed at
\* connection level: the transport error propagates and the end hooks have
\* written the scope's context.
C32_Witness ==
    \E u \in Units :
        /\ call[u].op = "search"
        /\ HasWildcard(call[u].index)
        /\ call[u].sent = 1
        /\ call[u].result = "ConnectionError"
        /\ req[u].exc = "ConnectionError"
        /\ Len(req[u].trace) = 5
        /\ mgrs[u] # <<>>
        /\ heap[Active(cell, u)].ends # <<>>
        /\ heap[Active(cell, u)].cre # NONE

\* A search on a wildcard index was answered with a status from 400 on and
\* returned the empty-hit result, the end hooks having written the context.
C32_Recovered ==
    \E u \in Units :
        /\ call[u].result = "empty_hits"
        /\ call[u].status >= 400
        /\ req[u].exc = "none"
        /\ Len(req[u].trace) = 5
        /\ heap[Active(cell, u)].ends # <<>>

====
